---- MODULE Spec2Model ----
(***************************************************************************)
(* A model of the zukunft crate: the Future trait (base.rs) with its       *)
(* combinators FutureWrap, FutureThen and FutureBind, and the channel       *)
(* backed ChannelFuture (mpsc.rs).                                          *)
(*                                                                         *)
(* One thread (the awaiting thread) creates channel pairs, composes a      *)
(* future out of them and calls await on it.  The Sender halves live in    *)
(* other threads, which send, clone and drop them at any time.  await is   *)
(* modelled as the call stack it builds: one frame per FutureThen /        *)
(* FutureBind whose inner.await() has not returned yet.                    *)
(***************************************************************************)
EXTENDS Integers, Sequences, FiniteSets, TLC

\* ---------------------------------------------------------------- bounds
MaxVal       == 2    \* payloads are 1..MaxVal
MaxSenderOps == 2    \* Sender::send and Sender::clone calls made in a run
MaxDepth     == 2    \* combinators stacked on the base future

\* u8 arithmetic of the closures used in the crate's tests (2*val, val+1,
\* val1*val2).  The payloads are small: no closure overflows within the bounds,
\* so the overflow behaviour of the build (panic or wrap) never comes into play.
U8Mod == 256

\* The channel pairs a run may create, named as in
\* test_bind_sequences_two_channel_futures (mpsc.rs:69-70), in creation order.
ChanOrder == <<"first", "second">>
Chans == {ChanOrder[i] : i \in 1..Len(ChanOrder)}
NoChan == ""
Values == 1..MaxVal

VARIABLES
    pc,        \* awaiting thread: "build", "await", "done", "panicked"
    owned,     \* ChannelFuture values held in local variables of the awaiting thread
    fut,       \* the future under composition, then the future whose await is running
    stack,     \* frames of FutureThen::await / FutureBind::await waiting for inner.await()
    val,       \* <<>> or <<v>>: the value the innermost finished await is returning
    result,    \* <<>> or <<v>>: what the outermost await returned
    prog,      \* the future the outermost await was called on
    nextId,    \* next fresh identity of a future value
    created,   \* channels created so far
    queue,     \* per channel: values sent and not yet received
    senders,   \* per channel: number of live Sender handles
    rxAlive,   \* per channel: the Receiver has not been dropped
    sent,      \* per channel: the values accepted by send, in order
    attempts,  \* per channel: number of send calls made
    sendRes,   \* per channel: result of the last send call: "none", "ok", "err"
    ops,       \* number of Sender::send and Sender::clone calls made
    early,     \* channels that accepted a value before await was called
    log        \* what the awaiting thread did, in order

vars == <<pc, owned, fut, stack, val, result, prog, nextId, created,
          queue, senders, rxAlive, sent, attempts, sendRes, ops, early, log>>

mainVars == <<pc, owned, fut, stack, val, result, prog, nextId, log>>
chanVars == <<queue, senders, rxAlive, sent, attempts, sendRes, ops, early>>

\* ------------------------------------------------------------- base.rs
NoFut == [kind |-> "none"]

U8(x) == x % U8Mod

\* lift(obj) = FutureWrap(obj)
lift(obj, id) == [kind |-> "wrap", val |-> obj, id |-> id]

\* ChannelFuture { rx: rx }
ChannelFuture(c, id) == [kind |-> "chan", ch |-> c, id |-> id]

\* then evaluating at once when the inner value is already known
thenEager(future, foo, id) ==
    IF future.kind = "wrap"
    THEN [kind |-> "wrap",
          val |-> (CASE foo.op = "double" -> (2 * future.val) % U8Mod
                     [] foo.op = "inc" -> (future.val + 1) % U8Mod
                     [] OTHER -> future.val),
          id |-> id]
    ELSE [kind |-> "then", inner |-> future, closure |-> foo, id |-> id]

\* then(future, foo) = FutureThen { inner: future, closure: foo }
then(future, foo, id) ==
    [kind |-> "then", inner |-> future, closure |-> foo, id |-> id]

\* map with a body of its own that wraps the future twice
mapAppliesTwice(self, f, id) ==
    [kind |-> "then",
     inner |-> [kind |-> "then", inner |-> self, closure |-> f, id |-> id],
     closure |-> f, id |-> id]

\* Future::map(self, f) = then(self, f)
map(self, f, id) == then(self, f, id)

\* bind(future, foo) = FutureBind { inner: future, closure: foo }
bind(future, foo, id) ==
    [kind |-> "bind", inner |-> future, closure |-> foo, id |-> id]

\* The closures of the crate's tests and documentation.
\*   |val| 2*val                      (base.rs:160, mpsc.rs:59)
\*   |val| val + 1                    (base.rs:178)
\*   move |val2| val1 * val2          (mpsc.rs:73)
Double   == [op |-> "double"]
Inc      == [op |-> "inc"]
MulBy(k) == [op |-> "mulBy", k |-> k]
ThenClosures == {Double, Inc}

\*   |val| lift(2 * val)                               (mpsc.rs:88)
\*   |val1| second_future.map(move |val2| val1*val2)   (mpsc.rs:71-74)
LiftDouble       == [op |-> "liftDouble"]
BindSecond(f)    == [op |-> "bindSecond", second |-> f]

\*   |val| lift(val + 50)                              (base.rs:185)
\*   |x| f(x).bind(g), f and g closures of the kinds above
LiftAdd          == [op |-> "liftAdd"]
BindBind(f, g)   == [op |-> "bindBind", f |-> f, g |-> g]

\* the ChannelFutures a bind closure captured
RECURSIVE CapturedBy(_)
CapturedBy(closure) ==
    CASE closure.op = "bindSecond" -> {closure.second}
      [] closure.op = "bindBind" -> CapturedBy(closure.f) \cup CapturedBy(closure.g)
      [] OTHER -> {}

\* the number of future values a call of a bind closure makes
Made(closure) == IF closure.op = "bindBind" THEN 2 ELSE 1

\* (self.closure)(res) of FutureThen::await
ApplyThen(closure, res) ==
    CASE closure.op = "double" -> U8(2 * res)
      [] closure.op = "inc"    -> U8(res + 1)
      [] closure.op = "mulBy"  -> U8(closure.k * res)

\* ApplyBind with the closure called on a constant instead of res
ApplyBindDropsRes(closure, res, id) ==
    CASE closure.op = "liftDouble" -> lift(U8(2 * 1), id)
      [] closure.op = "bindSecond" -> map(closure.second, MulBy(1), id)

\* ApplyBind with |x| f(x).bind(g) returning f(x), g never bound
ApplyBindNestedDropsG(closure, res, id) ==
    LET c == IF closure.op = "bindBind" THEN closure.f ELSE closure IN
    CASE c.op = "liftDouble" -> lift(U8(2 * res), id)
      [] c.op = "bindSecond" -> map(c.second, MulBy(res), id)
      [] c.op = "liftAdd"    -> lift(U8(res + 50), id)

\* (self.closure)(res) of FutureBind::await: the next future
RECURSIVE ApplyBind(_, _, _)
ApplyBind(closure, res, id) ==
    CASE closure.op = "liftDouble" -> lift(U8(2 * res), id)
      [] closure.op = "bindSecond" -> map(closure.second, MulBy(res), id)
      [] closure.op = "liftAdd"    -> lift(U8(res + 50), id)
      [] closure.op = "bindBind"   ->
            bind(ApplyBind(closure.f, res, id + 1), closure.g, id)

\* number of combinators stacked on the base future
RECURSIVE Depth(_)
Depth(f) ==
    IF f.kind \in {"then", "bind"} THEN 1 + Depth(f.inner) ELSE 0

\* the channels whose ChannelFuture is held inside future f (inner futures and
\* futures captured by closures)
RECURSIVE ChansOf(_)
ChansOf(f) ==
    CASE f.kind = "chan" -> {f.ch}
      [] f.kind = "then" -> ChansOf(f.inner)
      [] f.kind = "bind" ->
            ChansOf(f.inner) \cup {h.ch : h \in CapturedBy(f.closure)}
      [] OTHER -> {}

FrameChans(fr) == {h.ch : h \in CapturedBy(fr.closure)}

\* the channels whose ChannelFuture value still exists in the awaiting thread
LiveFutures ==
    {f.ch : f \in owned} \cup ChansOf(fut)
        \cup UNION {FrameChans(stack[i]) : i \in 1..Len(stack)}

\* The channel pairs are interchangeable, so the ChannelFutures held in local
\* variables are composed in the order they were created.
Oldest(f) == f \in owned /\ \A g \in owned : f.id <= g.id

\* a combinator may be stacked on f while every ChannelFuture still held in a
\* local variable can be moved into a bind closure afterwards
Room(f) == Depth(f) + Cardinality(owned) < MaxDepth

\* An entry of the awaiting thread's log:
\*   e     "await" (an await of a wrap/then/bind future is entered), "recv",
\*         "recvErr" (recv of a ChannelFuture's await returned), "call" (the
\*         closure of a then/bind future is called); in the programs that
\*         handle a Receiver themselves also "read" (a value read off it) and
\*         "from_receiver" (it was made into a ChannelFuture)
\*   f     the future the step belongs to (its id, kind, inner id, channel)
\*   arg   <<x>>: the argument of a closure call; for "from_receiver" the
\*         values the Receiver held
\*   ret   <<x>>: the value this step makes the future's await return
\*   next  the id of the future a bind closure returned
Event(e, f, arg, ret, next) ==
    [e |-> e, kind |-> f.kind, id |-> f.id, ch |-> f.ch, inner |-> f.inner,
     arg |-> arg, ret |-> ret, next |-> next]
Of(f) ==
    [kind |-> f.kind, id |-> f.id,
     ch |-> IF f.kind = "chan" THEN f.ch ELSE NoChan,
     inner |-> IF f.kind \in {"then", "bind"} THEN f.inner.id ELSE 0]

\* ------------------------------------------------------------- Init
Init ==
    /\ pc = "build"
    /\ owned = {}
    /\ fut = NoFut
    /\ stack = <<>>
    /\ val = <<>>
    /\ result = <<>>
    /\ prog = NoFut
    /\ nextId = 1
    /\ created = {}
    /\ queue = [c \in Chans |-> <<>>]
    /\ senders = [c \in Chans |-> 0]
    /\ rxAlive = [c \in Chans |-> FALSE]
    /\ sent = [c \in Chans |-> <<>>]
    /\ attempts = [c \in Chans |-> 0]
    /\ sendRes = [c \in Chans |-> "none"]
    /\ ops = 0
    /\ early = {}
    /\ log = <<>>

\* ------------------------------------------- composing (awaiting thread)
\* ChannelFuture::new(): mpsc::channel(), the Sender goes to another thread
ChannelFutureNew ==
    /\ pc = "build"
    /\ fut = NoFut
    /\ Cardinality(created) < Len(ChanOrder)
    /\ LET c == ChanOrder[Cardinality(created) + 1] IN
        /\ created' = created \cup {c}
        /\ owned' = owned \cup {ChannelFuture(c, nextId)}
        /\ senders' = [senders EXCEPT ![c] = 1]
        /\ rxAlive' = [rxAlive EXCEPT ![c] = TRUE]
    /\ nextId' = nextId + 1
    /\ UNCHANGED <<pc, fut, stack, val, result, prog, queue, sent, attempts, sendRes, ops, early, log>>

\* let future = lift(v)
Lift(v) ==
    /\ pc = "build"
    /\ fut = NoFut
    /\ fut' = lift(v, nextId)
    /\ nextId' = nextId + 1
    /\ UNCHANGED <<pc, owned, stack, val, result, prog, created, log>>
    /\ UNCHANGED chanVars

\* the composition starts from a ChannelFuture held in a local variable
UseChannelFuture(f) ==
    /\ pc = "build"
    /\ fut = NoFut
    /\ Oldest(f)
    /\ fut' = f
    /\ owned' = owned \ {f}
    /\ UNCHANGED <<pc, stack, val, result, prog, nextId, created, log>>
    /\ UNCHANGED chanVars

\* future.map(f)
Map(f) ==
    /\ pc = "build"
    /\ fut # NoFut
    /\ Room(fut)
    /\ fut' = map(fut, f, nextId)
    /\ nextId' = nextId + 1
    /\ UNCHANGED <<pc, owned, stack, val, result, prog, created, log>>
    /\ UNCHANGED chanVars

\* future.then(f)
Then(f) ==
    /\ pc = "build"
    /\ fut # NoFut
    /\ Room(fut)
    /\ fut' = then(fut, f, nextId)
    /\ nextId' = nextId + 1
    /\ UNCHANGED <<pc, owned, stack, val, result, prog, created, log>>
    /\ UNCHANGED chanVars

\* future.bind(|val| lift(2 * val))
BindLift ==
    /\ pc = "build"
    /\ fut # NoFut
    /\ Room(fut)
    /\ fut' = bind(fut, LiftDouble, nextId)
    /\ nextId' = nextId + 1
    /\ UNCHANGED <<pc, owned, stack, val, result, prog, created, log>>
    /\ UNCHANGED chanVars

\* first_future.bind(|val1| second_future.map(move |val2| val1 * val2)):
\* the closure captures (moves) second_future
BindChannel(f) ==
    /\ pc = "build"
    /\ fut # NoFut
    /\ Depth(fut) < MaxDepth
    /\ Oldest(f)
    /\ fut' = bind(fut, BindSecond(f), nextId)
    /\ owned' = owned \ {f}
    /\ nextId' = nextId + 1
    /\ UNCHANGED <<pc, stack, val, result, prog, created, log>>
    /\ UNCHANGED chanVars

\* future.await() is called on the composed future
StartAwait ==
    /\ pc = "build"
    /\ fut # NoFut
    /\ owned = {}
    /\ pc' = "await"
    /\ prog' = fut
    /\ UNCHANGED <<owned, fut, stack, val, result, nextId, created, log>>
    /\ UNCHANGED chanVars

\* ------------------------------------------------ await (awaiting thread)
Push(fr) == <<fr>> \o stack
Top == Head(stack)
Awaiting(kind) == pc = "await" /\ val = <<>> /\ fut.kind = kind
Returning == pc = "await" /\ val # <<>> /\ fut = NoFut

\* AwaitWrap returning the default value of the type instead of self.0
AwaitWrapDefault ==
    /\ Awaiting("wrap")
    /\ val' = <<0>>
    /\ fut' = NoFut
    /\ log' = Append(log, Event("await", Of(fut), <<>>, <<0>>, 0))
    /\ UNCHANGED <<pc, owned, stack, result, prog, nextId, created>>
    /\ UNCHANGED chanVars

\* FutureWrap::await: self.0
AwaitWrap ==
    /\ Awaiting("wrap")
    /\ val' = <<fut.val>>
    /\ fut' = NoFut
    /\ log' = Append(log, Event("await", Of(fut), <<>>, <<fut.val>>, 0))
    /\ UNCHANGED <<pc, owned, stack, result, prog, nextId, created>>
    /\ UNCHANGED chanVars

\* FutureThen::await up to the call self.inner.await()
AwaitThen ==
    /\ Awaiting("then")
    /\ stack' = Push([closure |-> fut.closure, self |-> Of(fut)])
    /\ fut' = fut.inner
    /\ log' = Append(log, Event("await", Of(fut), <<>>, <<>>, 0))
    /\ UNCHANGED <<pc, owned, val, result, prog, nextId, created>>
    /\ UNCHANGED chanVars

\* AwaitBind resolving the future its closure captured before self.inner
AwaitBindCapturedFirst ==
    /\ Awaiting("bind")
    /\ stack' = Push([closure |-> fut.closure, self |-> Of(fut)])
    /\ fut' = IF fut.closure.op = "bindSecond" THEN fut.closure.second ELSE fut.inner
    /\ log' = Append(log, Event("await", Of(fut), <<>>, <<>>, 0))
    /\ UNCHANGED <<pc, owned, val, result, prog, nextId, created>>
    /\ UNCHANGED chanVars

\* FutureBind::await up to the call self.inner.await()
AwaitBind ==
    /\ Awaiting("bind")
    /\ stack' = Push([closure |-> fut.closure, self |-> Of(fut)])
    /\ fut' = fut.inner
    /\ log' = Append(log, Event("await", Of(fut), <<>>, <<>>, 0))
    /\ UNCHANGED <<pc, owned, val, result, prog, nextId, created>>
    /\ UNCHANGED chanVars

\* RecvReady never noticing that the Senders are gone
RecvReadyIgnoresHangup(c) == queue[c] # <<>>

\* RecvOk with the hang-up looked at before the queue: a value left by a
\* Sender that is gone is not delivered
RecvOkNeedsSender(c) == queue[c] # <<>> /\ senders[c] > 0

\* RecvReady taking the channel for closed when the first of its Senders is
\* dropped, clones or not
RecvReadyOneHangup(c) == queue[c] # <<>> \/ senders[c] <= 1

\* std::sync::mpsc::Receiver::recv as ChannelFuture::await uses it: the oldest
\* queued value; an error when the queue is empty and every Sender is gone;
\* otherwise the caller stays blocked
RecvReady(c) == queue[c] # <<>> \/ senders[c] = 0
RecvOk(c) == queue[c] # <<>>

\* ChannelRecv polling instead of blocking (try_recv with a default): returns
\* at once, with 0 when nothing is queued
ChannelRecvPoll ==
    /\ Awaiting("chan")
    /\ LET v == IF RecvOk(fut.ch) THEN Head(queue[fut.ch]) ELSE 0 IN
        /\ val' = <<v>>
        /\ log' = Append(log, Event("recv", Of(fut), <<>>, <<v>>, 0))
    /\ queue' = [queue EXCEPT ![fut.ch] = IF RecvOk(fut.ch) THEN Tail(@) ELSE @]
    /\ UNCHANGED <<pc, owned, fut, stack, result, prog, nextId, created>>
    /\ UNCHANGED <<senders, rxAlive, sent, attempts, sendRes, ops, early>>

\* ChannelRecv calling recv until the queue is empty and keeping the last value
ChannelRecvDrain ==
    /\ Awaiting("chan")
    /\ RecvOk(fut.ch)
    /\ LET q == queue[fut.ch] IN
        /\ val' = <<q[Len(q)]>>
        /\ queue' = [queue EXCEPT ![fut.ch] = <<>>]
        /\ log' = log \o [i \in 1..Len(q) |-> Event("recv", Of(fut), <<>>, <<q[i]>>, 0)]
    /\ UNCHANGED <<pc, owned, fut, stack, result, prog, nextId, created>>
    /\ UNCHANGED <<senders, rxAlive, sent, attempts, sendRes, ops, early>>

\* ChannelRecv taking the newest queued value instead of the oldest
ChannelRecvNewest ==
    /\ Awaiting("chan")
    /\ RecvOk(fut.ch)
    /\ LET q == queue[fut.ch] IN
        /\ val' = <<q[Len(q)]>>
        /\ queue' = [queue EXCEPT ![fut.ch] = SubSeq(q, 1, Len(q) - 1)]
        /\ log' = Append(log, Event("recv", Of(fut), <<>>, <<q[Len(q)]>>, 0))
    /\ UNCHANGED <<pc, owned, fut, stack, result, prog, nextId, created>>
    /\ UNCHANGED <<senders, rxAlive, sent, attempts, sendRes, ops, early>>

\* ChannelFuture::await: self.rx.recv() returned Ok(v), unwrap gives v
ChannelRecv ==
    /\ Awaiting("chan")
    /\ RecvOk(fut.ch)
    /\ val' = <<Head(queue[fut.ch])>>
    /\ queue' = [queue EXCEPT ![fut.ch] = Tail(@)]
    /\ log' = Append(log, Event("recv", Of(fut), <<>>, <<Head(queue[fut.ch])>>, 0))
    /\ UNCHANGED <<pc, owned, fut, stack, result, prog, nextId, created>>
    /\ UNCHANGED <<senders, rxAlive, sent, attempts, sendRes, ops, early>>

\* ChannelRecvFail with unwrap_or_default in place of unwrap: a closed, empty
\* channel yields the value 0
ChannelRecvFailDefault ==
    /\ Awaiting("chan")
    /\ RecvReady(fut.ch)
    /\ ~RecvOk(fut.ch)
    /\ val' = <<0>>
    /\ log' = Append(log, Event("recv", Of(fut), <<>>, <<0>>, 0))
    /\ UNCHANGED <<pc, owned, fut, stack, result, prog, nextId, created>>
    /\ UNCHANGED chanVars

\* ChannelRecvFail with the enclosing combinator catching the failure and
\* going on with the default value in place of its own result
ChannelRecvFailCaught ==
    /\ Awaiting("chan")
    /\ RecvReady(fut.ch)
    /\ ~RecvOk(fut.ch)
    /\ log' = Append(log, Event("recvErr", Of(fut), <<>>, <<>>, 0))
    /\ rxAlive' = [rxAlive EXCEPT ![fut.ch] = FALSE]
    /\ fut' = NoFut
    /\ IF stack = <<>>
       THEN pc' = "panicked" /\ UNCHANGED <<val, stack>>
       ELSE pc' = pc /\ val' = <<0>> /\ stack' = Tail(stack)
    /\ UNCHANGED <<owned, result, prog, nextId, created>>
    /\ UNCHANGED <<queue, senders, sent, attempts, sendRes, ops, early>>

\* ChannelFuture::await: self.rx.recv() returned Err(RecvError), unwrap panics;
\* unwinding drops every value the thread owns, the receivers included
ChannelRecvFail ==
    /\ Awaiting("chan")
    /\ RecvReady(fut.ch)
    /\ ~RecvOk(fut.ch)
    /\ pc' = "panicked"
    /\ fut' = NoFut
    /\ stack' = <<>>
    /\ owned' = {}
    /\ rxAlive' = [c \in Chans |-> FALSE]
    /\ log' = Append(log, Event("recvErr", Of(fut), <<>>, <<>>, 0))
    /\ UNCHANGED <<val, result, prog, nextId, created>>
    /\ UNCHANGED <<queue, senders, sent, attempts, sendRes, ops, early>>

\* ChannelReturn with await taking &self: the Receiver outlives the await
ChannelReturnKeepsReceiver ==
    /\ pc = "await"
    /\ fut.kind = "chan"
    /\ val # <<>>
    /\ fut' = NoFut
    /\ UNCHANGED <<pc, owned, stack, val, result, prog, nextId, created, log>>
    /\ UNCHANGED chanVars

\* ChannelFuture::await returns: self, and with it the Receiver, is dropped
ChannelReturn ==
    /\ pc = "await"
    /\ fut.kind = "chan"
    /\ val # <<>>
    /\ fut' = NoFut
    /\ rxAlive' = [rxAlive EXCEPT ![fut.ch] = FALSE]
    /\ UNCHANGED <<pc, owned, stack, val, result, prog, nextId, created, log>>
    /\ UNCHANGED <<queue, senders, sent, attempts, sendRes, ops, early>>

\* ThenCall applying the closure a second time to its own result
ThenCallTwice ==
    /\ Returning
    /\ stack # <<>>
    /\ Top.self.kind = "then"
    /\ LET once == ApplyThen(Top.closure, val[1])
           twice == ApplyThen(Top.closure, once) IN
        /\ val' = <<twice>>
        /\ log' = log \o <<Event("call", Top.self, val, <<once>>, 0),
                            Event("call", Top.self, <<once>>, <<twice>>, 0)>>
    /\ stack' = Tail(stack)
    /\ UNCHANGED <<pc, owned, fut, result, prog, nextId, created>>
    /\ UNCHANGED chanVars

\* ThenCall returning to the outermost of the waiting FutureThen::await calls
\* first
ThenCallOutermostFirst ==
    /\ Returning
    /\ stack # <<>>
    /\ Top.self.kind = "then"
    /\ LET n == CHOOSE j \in 1..Len(stack) :
                    /\ \A k \in 1..j : stack[k].self.kind = "then"
                    /\ (j < Len(stack) => stack[j + 1].self.kind # "then")
           fr == stack[n]
       IN
        /\ val' = <<ApplyThen(fr.closure, val[1])>>
        /\ log' = Append(log, Event("call", fr.self, val, <<ApplyThen(fr.closure, val[1])>>, 0))
        /\ stack' = SubSeq(stack, 1, n - 1) \o SubSeq(stack, n + 1, Len(stack))
    /\ UNCHANGED <<pc, owned, fut, result, prog, nextId, created>>
    /\ UNCHANGED chanVars

\* FutureThen::await after inner.await() returned: (self.closure)(res)
ThenCall ==
    /\ Returning
    /\ stack # <<>>
    /\ Top.self.kind = "then"
    /\ val' = <<ApplyThen(Top.closure, val[1])>>
    /\ stack' = Tail(stack)
    /\ log' = Append(log, Event("call", Top.self, val, <<ApplyThen(Top.closure, val[1])>>, 0))
    /\ UNCHANGED <<pc, owned, fut, result, prog, nextId, created>>
    /\ UNCHANGED chanVars

\* BindCall calling the closure, dropping the future it made, and calling it
\* again for the future it awaits
BindCallTwice ==
    /\ Returning
    /\ stack # <<>>
    /\ Top.self.kind = "bind"
    /\ fut' = ApplyBind(Top.closure, val[1], nextId + 1)
    /\ nextId' = nextId + 2
    /\ val' = <<>>
    /\ stack' = Tail(stack)
    /\ log' = log \o <<Event("call", Top.self, val, <<>>, nextId),
                        Event("call", Top.self, val, <<>>, nextId + 1)>>
    /\ UNCHANGED <<pc, owned, result, prog, created>>
    /\ UNCHANGED chanVars

\* FutureBind::await after inner.await() returned:
\* let next = (self.closure)(res); next.await()
BindCall ==
    /\ Returning
    /\ stack # <<>>
    /\ Top.self.kind = "bind"
    /\ fut' = ApplyBind(Top.closure, val[1], nextId)
    /\ nextId' = nextId + Made(Top.closure)
    /\ val' = <<>>
    /\ stack' = Tail(stack)
    /\ log' = Append(log, Event("call", Top.self, val, <<>>, nextId))
    /\ UNCHANGED <<pc, owned, result, prog, created>>
    /\ UNCHANGED chanVars

\* the outermost await returned to its caller; the thread's remaining locals
\* (ChannelFutures never composed) are dropped when it ends
Finish ==
    /\ Returning
    /\ stack = <<>>
    /\ pc' = "done"
    /\ result' = val
    /\ val' = <<>>
    /\ owned' = {}
    /\ rxAlive' = [c \in Chans |-> rxAlive[c] /\ c \notin {f.ch : f \in owned}]
    /\ UNCHANGED <<fut, stack, prog, nextId, created, log>>
    /\ UNCHANGED <<queue, senders, sent, attempts, sendRes, ops, early>>

\* ------------------------------------------------ the Sender handles
\* The threads holding Senders run at any time.  Composing, entering a
\* combinator's await and calling a closure touch no channel, so a Sender step
\* that falls between such steps of the awaiting thread is taken when that
\* thread next stands before or right after a channel operation (creating a
\* pair, recv, dropping the Receiver) or has ended.
SenderMayRun ==
    \/ pc = "build" /\ fut = NoFut
    \/ pc = "await" /\ fut.kind = "chan"
    \/ pc \in {"done", "panicked"}

\* Send on a rendezvous channel (sync_channel(0)): the call returns only when
\* a recv is waiting for the value
SendRendezvous(c, v) ==
    /\ SenderMayRun
    /\ senders[c] > 0
    /\ ops < MaxSenderOps
    /\ ~rxAlive[c] \/ (Awaiting("chan") /\ fut.ch = c /\ queue[c] = <<>>)
    /\ ops' = ops + 1
    /\ attempts' = [attempts EXCEPT ![c] = @ + 1]
    /\ IF rxAlive[c]
       THEN /\ queue' = [queue EXCEPT ![c] = Append(@, v)]
            /\ sent' = [sent EXCEPT ![c] = Append(@, v)]
            /\ sendRes' = [sendRes EXCEPT ![c] = "ok"]
            /\ UNCHANGED early
       ELSE /\ sendRes' = [sendRes EXCEPT ![c] = "err"]
            /\ UNCHANGED <<queue, sent, early>>
    /\ UNCHANGED <<senders, rxAlive, created>>
    /\ UNCHANGED mainVars

\* std::sync::mpsc::Sender::send: Ok(()) and the value is queued while the
\* Receiver exists, Err(SendError(v)) once it has been dropped; never blocks
Send(c, v) ==
    /\ SenderMayRun
    /\ senders[c] > 0
    /\ ops < MaxSenderOps
    /\ ops' = ops + 1
    /\ attempts' = [attempts EXCEPT ![c] = @ + 1]
    /\ IF rxAlive[c]
       THEN /\ queue' = [queue EXCEPT ![c] = Append(@, v)]
            /\ sent' = [sent EXCEPT ![c] = Append(@, v)]
            /\ sendRes' = [sendRes EXCEPT ![c] = "ok"]
            /\ early' = IF pc = "build" THEN early \cup {c} ELSE early
       ELSE /\ sendRes' = [sendRes EXCEPT ![c] = "err"]
            /\ UNCHANGED <<queue, sent, early>>
    /\ UNCHANGED <<senders, rxAlive, created>>
    /\ UNCHANGED mainVars

\* Sender::clone
CloneSender(c) ==
    /\ SenderMayRun
    /\ senders[c] > 0
    /\ ops < MaxSenderOps
    /\ senders' = [senders EXCEPT ![c] = @ + 1]
    /\ ops' = ops + 1
    /\ UNCHANGED <<queue, rxAlive, sent, attempts, sendRes, early, created>>
    /\ UNCHANGED mainVars

\* a Sender handle is dropped (explicitly, or when its thread ends)
DropSender(c) ==
    /\ SenderMayRun
    /\ senders[c] > 0
    /\ senders' = [senders EXCEPT ![c] = @ - 1]
    /\ UNCHANGED <<queue, rxAlive, sent, attempts, sendRes, ops, early, created>>
    /\ UNCHANGED mainVars

\* ------------------------------------------------------------- Next
Compose ==
    \/ ChannelFutureNew
    \/ \E v \in Values : Lift(v)
    \/ \E f \in owned : UseChannelFuture(f)
    \/ \E f \in ThenClosures : Map(f)
    \/ \E f \in ThenClosures : Then(f)
    \/ BindLift
    \/ \E f \in owned : BindChannel(f)
    \/ StartAwait

Await ==
    \/ AwaitWrap
    \/ AwaitThen
    \/ AwaitBind
    \/ ChannelRecv
    \/ ChannelRecvFail
    \/ ChannelReturn
    \/ ThenCall
    \/ BindCall
    \/ Finish

MainNext == Compose \/ Await

SenderNext ==
    \E c \in Chans :
        \/ \E v \in Values : Send(c, v)
        \/ CloneSender(c)
        \/ DropSender(c)

Next == MainNext \/ SenderNext

Spec == Init /\ [][Next]_vars

\* The programs of mpsc.rs alone: ChannelFutures composed with map and with a
\* bind over a second ChannelFuture, no lifted values.
ChannelCompose ==
    \/ ChannelFutureNew
    \/ \E f \in owned : UseChannelFuture(f)
    \/ \E f \in ThenClosures : Map(f)
    \/ \E f \in owned : BindChannel(f)
    \/ StartAwait

ChannelAwait ==
    \/ AwaitThen
    \/ AwaitBind
    \/ ChannelRecv
    \/ ChannelRecvFail
    \/ ChannelReturn
    \/ ThenCall
    \/ BindCall
    \/ Finish

ChannelMain == ChannelCompose \/ ChannelAwait

ChannelNext == ChannelMain \/ SenderNext

\* The awaiting thread keeps running while it has a step to take (a blocked
\* recv is no step).  Nothing is assumed about the threads holding Senders.
FairSpec == Init /\ [][ChannelNext]_vars /\ WF_vars(ChannelMain)

\* ------------------------------------------------------- reading the log
Idx == 1..Len(log)
RecvIdx(c) == {i \in Idx : log[i].e = "recv" /\ log[i].ch = c}
FailIdx(c) == {i \in Idx : log[i].e = "recvErr" /\ log[i].ch = c}
Range(q) == {q[i] : i \in 1..Len(q)}

\* first.bind(|a| second.map(move |b| a * b)) over two ChannelFutures
IsBindTwo(p) ==
    /\ p.kind = "bind"
    /\ p.inner.kind = "chan"
    /\ p.closure.op = "bindSecond"
FirstOf(p) == p.inner.ch
SecondOf(p) == p.closure.second.ch

\* the awaiting thread stands in ChannelFuture::await of channel c, before recv
AwaitingChan(c) == Awaiting("chan") /\ fut.ch = c

\* every Sender of c is gone and none ever sent a value
ClosedEmpty(c) == c \in created /\ senders[c] = 0 /\ sent[c] = <<>>

\* ------------------------------------------------------------- C1
C1_Product ==
    (pc = "done" /\ IsBindTwo(prog)) =>
        result = <<U8(sent[FirstOf(prog)][1] * sent[SecondOf(prog)][1])>>

C1_BothSent ==
    /\ pc = "await"
    /\ IsBindTwo(prog)
    /\ sent[FirstOf(prog)] # <<>>
    /\ sent[SecondOf(prog)] # <<>>

\* C1: awaiting first.bind(|a| second.map(|b| a*b)) returns a*b, a and b the
\* values first sent on the two channels, whatever the order of the sends and
\* of the await; and once both values are sent the await terminates.
C1_BindTwoChannels ==
    /\ []C1_Product
    /\ (C1_BothSent ~> (pc = "done"))

\* the value of second was sent before await was called, that of first after
C1_Witness ==
    /\ pc = "done"
    /\ IsBindTwo(prog)
    /\ SecondOf(prog) \in early
    /\ FirstOf(prog) \notin early
    /\ sent[FirstOf(prog)][1] # sent[SecondOf(prog)][1]
    /\ result = <<U8(sent[FirstOf(prog)][1] * sent[SecondOf(prog)][1])>>

\* ------------------------------------------------------------- C2
C2_NoValue ==
    \A c \in Chans : ClosedEmpty(c) => RecvIdx(c) = {}

\* C2: once the resolver is dropped with no value ever sent, an await on the
\* paired future never returns a value, and an await standing at its recv
\* fails (the thread panics in unwrap) instead of blocking forever.
C2_DroppedResolverFails ==
    /\ []C2_NoValue
    /\ \A c \in Chans :
          (AwaitingChan(c) /\ ClosedEmpty(c)) ~> (pc = "panicked" /\ FailIdx(c) # {})

C2_Witness ==
    \E c \in Chans :
        /\ pc = "panicked"
        /\ FailIdx(c) # {}
        /\ ClosedEmpty(c)
        /\ ops = 0

\* ------------------------------------------------------------- C3
\* C3: every value a ChannelFuture's await returned had been sent on its
\* channel before (so none is returned before a send), and with a single send
\* of v it is v.
C3_ReturnsSentValue ==
    \A i \in Idx :
        log[i].e = "recv" =>
            /\ sent[log[i].ch] # <<>>
            /\ log[i].ret[1] \in Range(sent[log[i].ch])
            /\ Len(sent[log[i].ch]) = 1 => log[i].ret = <<sent[log[i].ch][1]>>

\* the await was called on an empty channel and returned the one value sent later
C3_Witness ==
    \E c \in Chans :
        /\ RecvIdx(c) # {}
        /\ c \notin early
        /\ Len(sent[c]) = 1
        /\ pc = "done"

\* ------------------------------------------------------------- C4
\* C4: a ChannelFuture takes at most one value off its channel, the value it
\* resolves to is the first one sent, and this stays so whatever is sent later.
C4_FirstValueOnly ==
    \A c \in Chans :
        /\ Cardinality(RecvIdx(c)) <= 1
        /\ Len(sent[c]) - Len(queue[c]) <= 1
        /\ \A i \in RecvIdx(c) : log[i].ret = <<sent[c][1]>>

\* two different values were sent and the future resolved
C4_Witness ==
    \E c \in Chans :
        /\ Len(sent[c]) = 2
        /\ sent[c][1] # sent[c][2]
        /\ queue[c] = <<sent[c][2]>>
        /\ RecvIdx(c) # {}
        /\ pc = "done"

\* ------------------------------------------------------------- C5
Last(q) == q[Len(q)]

C5_Composing ==
    pc = "build" =>
        /\ log' = log
        /\ val' = val
        /\ stack' = stack
        /\ \A c \in Chans : Len(queue'[c]) >= Len(queue[c])
        /\ (fut # NoFut /\ fut' # fut) =>
              /\ fut'.kind \in {"then", "bind"}
              /\ fut'.inner = fut
              /\ fut'.closure \in ThenClosures \cup {LiftDouble}
                    \cup {BindSecond(f) : f \in owned}

C5_Calling ==
    (log' # log /\ Last(log').e = "call") =>
        /\ pc = "await"
        /\ stack # <<>>
        /\ Top.self.id = Last(log').id
        /\ \E a \in Idx : log[a].e = "await" /\ log[a].id = Last(log').id
        /\ Last(log').kind = "bind" =>
              /\ Last(log').next = nextId
              /\ fut'.id = nextId
              /\ nextId' > nextId

\* C5: map, then and bind only store the inner future and the closure: while
\* the program composes, nothing is received from a channel and no closure is
\* called; a closure is called (and a bind's next future made) only in a step
\* of the await of its combinator.
C5_ConstructionIsLazy == [][C5_Composing /\ C5_Calling]_vars

\* a bind over a map over a ChannelFuture, built while values were queued on
\* every channel it holds, and nothing has been received or called
C5_Witness ==
    /\ pc = "build"
    /\ fut.kind = "bind"
    /\ fut.closure.op = "bindSecond"
    /\ fut.inner.kind = "then"
    /\ fut.inner.inner.kind = "chan"
    /\ \A c \in ChansOf(fut) : queue[c] # <<>>
    /\ log = <<>>

\* ------------------------------------------------------------- C6
\* the place in the log where the await of future id returned, 0 if it has not
RECURSIVE RetAt(_)
RetAt(id) ==
    LET direct == {j \in Idx : log[j].id = id /\ log[j].ret # <<>>}
        binds  == {j \in Idx : log[j].id = id /\ log[j].e = "call"
                                  /\ log[j].kind = "bind"}
    IN  IF direct # {} THEN CHOOSE j \in direct : TRUE
        ELSE IF binds # {} THEN RetAt(log[CHOOSE j \in binds : TRUE].next)
        ELSE 0

Calls(id) == {k \in Idx : log[k].e = "call" /\ log[k].id = id}

\* the call k of a combinator's closure comes after the combinator's await
\* was entered at a and after its inner future returned, with that value
CalledOnInnerValue(a, k) ==
    LET j == RetAt(log[a].inner) IN
        /\ a < j
        /\ j < k
        /\ log[k].arg = log[j].ret

\* C6: in an await of a map combinator the closure is called at most once,
\* exactly once by the time the await has returned, and only after the inner
\* future's await returned, on the value it returned.
C6_MapCallsOnceAfterInner ==
    \A a \in Idx :
        (log[a].e = "await" /\ log[a].kind = "then") =>
            /\ Cardinality(Calls(log[a].id)) <= 1
            /\ pc = "done" => Cardinality(Calls(log[a].id)) = 1
            /\ \A k \in Calls(log[a].id) : CalledOnInnerValue(a, k)

\* a map over a ChannelFuture whose value was sent after await was called
C6_Witness ==
    /\ pc = "done"
    /\ prog.kind = "then"
    /\ prog.inner.kind = "chan"
    /\ prog.inner.ch \notin early
    /\ Cardinality(Calls(prog.id)) = 1

\* ------------------------------------------------------------- C7
\* the bind combinators of a composed future
RECURSIVE Binds(_)
Binds(p) ==
    CASE p.kind = "bind" -> {p} \cup Binds(p.inner)
      [] p.kind = "then" -> Binds(p.inner)
      [] OTHER -> {}

C7_Order ==
    \A a \in Idx :
        (log[a].e = "await" /\ log[a].kind = "bind") =>
            /\ Cardinality(Calls(log[a].id)) <= 1
            /\ \A k \in Calls(log[a].id) :
                  /\ CalledOnInnerValue(a, k)
                  /\ \A m \in Idx : log[m].id = log[k].next => m > k

C7_CapturedAfterInner ==
    \A b \in Binds(prog) :
        b.closure.op = "bindSecond" =>
            \A m \in Idx :
                log[m].id = b.closure.second.id =>
                    \E k \in Calls(b.id) : k < m /\ RetAt(b.inner.id) \in 1..(k - 1)

C7_Result ==
    (pc = "done" /\ prog.kind = "bind") =>
        /\ RetAt(prog.id) # 0
        /\ \A k \in Calls(prog.id) :
              /\ RetAt(prog.id) > k
              /\ RetAt(prog.id) = RetAt(log[k].next)
        /\ result = log[RetAt(prog.id)].ret

\* C7: the await of a bind resolves the inner future, then calls the closure
\* on its value, then resolves the future the closure returned and returns
\* that future's value; a ChannelFuture the closure captured is received from
\* only after the inner value was received and the closure called.
C7_BindSequencesThreeSteps == C7_Order /\ C7_CapturedAfterInner /\ C7_Result

\* first.bind(|a| second.map(..)) with second's value sent before the await
\* and first's after it: the log still runs inner, closure, next
C7_Witness ==
    /\ pc = "done"
    /\ IsBindTwo(prog)
    /\ SecondOf(prog) \in early
    /\ FirstOf(prog) \notin early
    /\ [i \in 1..Len(log) |-> <<log[i].e, log[i].ch>>] =
          << <<"await", NoChan>>, <<"recv", FirstOf(prog)>>, <<"call", NoChan>>,
             <<"await", NoChan>>, <<"recv", SecondOf(prog)>>, <<"call", NoChan>> >>

\* ------------------------------------------------------------- C8
\* C8: a send on a channel whose ChannelFuture no longer exists (dropped, or
\* consumed by an await that returned) returns Err and queues nothing.
C8_SendAfterDropFails ==
    [][\A c \in Chans :
          (attempts'[c] # attempts[c] /\ c \in created /\ c \notin LiveFutures) =>
              /\ sendRes'[c] = "err"
              /\ queue'[c] = queue[c]
              /\ sent'[c] = sent[c]]_vars

\* the sender got Err for a future an await consumed, the thread still running
C8_Witness ==
    \E c \in Chans :
        /\ sendRes[c] = "err"
        /\ RecvIdx(c) # {}
        /\ c \notin LiveFutures
        /\ pc = "await"

\* ------------------------------------------------------------- C9
\* C9: if for every channel eventually a send was made or every Sender is
\* gone, then every await that was called terminates: it returns or it fails.
C9_AwaitTerminatesOnceClosed ==
    (\A c \in Chans : <>[](senders[c] = 0 \/ attempts[c] > 0))
        => [](pc = "await" => <>(pc \in {"done", "panicked"}))

\* a Sender was cloned, both handles were dropped unused, and the await failed
C9_Witness ==
    \E c \in Chans :
        /\ pc = "panicked"
        /\ FailIdx(c) # {}
        /\ senders[c] = 0
        /\ ops = 1
        /\ \A d \in Chans : attempts[d] = 0

\* ------------------------------------------------------------- C10
\* the state of the ChannelFuture of channel c, as the log l tells it
FState(c, l) ==
    LET got  == {i \in 1..Len(l) : l[i].e = "recv" /\ l[i].ch = c}
        fail == {i \in 1..Len(l) : l[i].e = "recvErr" /\ l[i].ch = c}
    IN  IF got # {} THEN <<"Resolved", l[CHOOSE i \in got : TRUE].ret[1]>>
        ELSE IF fail # {} THEN <<"Failed">>
        ELSE <<"Unresolved">>

\* the steps of l that resolve a future: entering an await, a recv returning
Resolves(l) == {i \in 1..Len(l) : l[i].e \in {"await", "recv", "recvErr"}}

C10_Step ==
    /\ \A c \in Chans :
          /\ FState(c, log) # <<"Unresolved">> =>
                /\ FState(c, log') = FState(c, log)
                /\ Len(queue'[c]) >= Len(queue[c])
          /\ Len(queue'[c]) >= Len(queue[c]) - 1
    /\ \A i, j \in Resolves(log') : log'[i].id = log'[j].id => i = j

\* C10: a ChannelFuture leaves Unresolved at most once, for Resolved(v) or for
\* Failed, and stays there; no future is resolved twice; nothing is taken off
\* a channel whose future has resolved or failed.
C10_ChannelFutureStates == [][C10_Step]_vars

\* one future resolved with a later value left unread, another one failed
C10_Witness ==
    \E c, d \in Chans :
        /\ FState(c, log)[1] = "Resolved"
        /\ queue[c] # <<>>
        /\ FState(d, log) = <<"Failed">>
        /\ pc = "panicked"

\* ------------------------------------------------------------- C11
\* The programs in which every thread holding a Sender has ended (was joined)
\* before await is called: the Senders act only while the future is composed.
JoinedSenderNext == pc = "build" /\ SenderNext

JoinedNext == ChannelMain \/ JoinedSenderNext

JoinedSpec == Init /\ [][JoinedNext]_vars /\ WF_vars(ChannelMain)

\* a value was sent on c and every Sender of c is gone
SentAndClosed(c) == sent[c] # <<>> /\ senders[c] = 0

C11_Delivers ==
    \A c \in Chans :
        /\ (AwaitingChan(c) /\ sent[c] # <<>>) => RecvOk(c)
        /\ FailIdx(c) # {} => (sent[c] = <<>> /\ senders[c] = 0 /\ RecvIdx(c) = {})
        /\ (SentAndClosed(c) /\ RecvIdx(c) # {}) =>
              \A i \in RecvIdx(c) : log[i].ret = <<sent[c][1]>>

\* C11: when a value was sent and the resolver then dropped before await is
\* called, the await of the paired future does not fail: its recv finds the
\* value, returns it, and the await goes on to return; an await fails only on
\* a channel that is closed and on which no value was ever sent.
C11_SentThenDroppedResolves ==
    /\ []C11_Delivers
    /\ \A c \in Chans :
          (AwaitingChan(c) /\ SentAndClosed(c)) ~>
              (pc = "await" /\ RecvIdx(c) # {} /\ val = <<sent[c][1]>>)

\* the future itself was awaited, its resolver gone after one send, and the
\* await returned the value
C11_Witness ==
    \E c \in Chans :
        /\ pc = "done"
        /\ prog.kind = "chan"
        /\ prog.ch = c
        /\ SentAndClosed(c)
        /\ result = <<sent[c][1]>>
        /\ FailIdx(c) = {}

\* ------------------------------------------------------------- C12
\* The programs of base.rs alone: lifted values composed with map, then and
\* bind; the awaiting thread is the only thread there is.
LiftCompose ==
    \/ \E v \in Values : Lift(v)
    \/ \E f \in ThenClosures : Map(f)
    \/ \E f \in ThenClosures : Then(f)
    \/ BindLift
    \/ StartAwait

LiftAwait ==
    \/ AwaitWrap
    \/ AwaitThen
    \/ AwaitBind
    \/ ThenCall
    \/ BindCall
    \/ Finish

LiftNext == LiftCompose \/ LiftAwait

LiftSpec == Init /\ [][LiftNext]_vars /\ WF_vars(LiftNext)

C12_Value ==
    /\ (pc = "done" /\ prog.kind = "wrap") =>
          /\ result = <<prog.val>>
          /\ Len(log) = 1
          /\ log[1].e = "await"
          /\ log[1].id = prog.id
          /\ log[1].ret = <<prog.val>>
    /\ \A i \in Idx : (log[i].e = "await" /\ log[i].kind = "wrap") => log[i].ret # <<>>

\* C12: the await of lift(x) returns x, for every x; it is one step of the
\* awaiting thread (nothing received, no closure called), and it ends with
\* that thread as the only one running.
C12_LiftIdentity ==
    /\ []C12_Value
    /\ \A x \in Values :
          (pc = "await" /\ prog.kind = "wrap" /\ prog.val = x) ~>
              (pc = "done" /\ result = <<x>>)

C12_Witness ==
    /\ pc = "done"
    /\ prog.kind = "wrap"
    /\ prog.val = MaxVal
    /\ result = <<MaxVal>>

\* ------------------------------------------------------------- C13
\* lift(x).map(f).map(g)
IsMapMap(p) ==
    /\ p.kind = "then"
    /\ p.inner.kind = "then"
    /\ p.inner.inner.kind = "wrap"

\* the log as a sequence of <<step, future, argument, returned value>>
Steps == [i \in Idx |-> <<log[i].e, log[i].id, log[i].arg, log[i].ret>>]

C13_Composition ==
    (pc = "done" /\ IsMapMap(prog)) =>
        LET x  == prog.inner.inner.val
            f  == prog.inner.closure
            g  == prog.closure
            fx == ApplyThen(f, x)
        IN  /\ result = <<ApplyThen(g, fx)>>
            /\ Steps = << <<"await", prog.id, <<>>, <<>> >>,
                          <<"await", prog.inner.id, <<>>, <<>> >>,
                          <<"await", prog.inner.inner.id, <<>>, <<x>> >>,
                          <<"call", prog.inner.id, <<x>>, <<fx>> >>,
                          <<"call", prog.id, <<fx>>, <<ApplyThen(g, fx)>> >> >>

\* C13: the await of lift(x).map(f).map(g) returns g(f(x)): after the lifted
\* value is returned f is called on x, then g on f(x), each once and nothing
\* else; and the await ends.
C13_MapComposition ==
    /\ []C13_Composition
    /\ (pc = "await" /\ IsMapMap(prog)) ~> (pc = "done")

\* test_chain_map: lift(x).map(|val| 2*val).map(|val| val + 1)
C13_Witness ==
    /\ pc = "done"
    /\ IsMapMap(prog)
    /\ prog.inner.closure = Double
    /\ prog.closure = Inc
    /\ prog.inner.inner.val = MaxVal
    /\ result = <<2 * MaxVal + 1>>

\* ------------------------------------------------------------- C14
\* await as the function of the future it is in the source, with recv() giving
\* the first value sent on the channel:
\*   FutureWrap    self.0
\*   FutureThen    (self.closure)(self.inner.await())
\*   FutureBind    (self.closure)(self.inner.await()).await()
RECURSIVE AwaitValue(_)
AwaitValue(f) ==
    CASE f.kind = "wrap" -> f.val
      [] f.kind = "chan" -> sent[f.ch][1]
      [] f.kind = "then" -> ApplyThen(f.closure, AwaitValue(f.inner))
      [] f.kind = "bind" -> AwaitValue(ApplyBind(f.closure, AwaitValue(f.inner), 0))

\* the channels that await receives from, in order
RECURSIVE AwaitRecvs(_)
AwaitRecvs(f) ==
    CASE f.kind = "wrap" -> <<>>
      [] f.kind = "chan" -> <<f.ch>>
      [] f.kind = "then" -> AwaitRecvs(f.inner)
      [] f.kind = "bind" ->
            AwaitRecvs(f.inner) \o
            AwaitRecvs(ApplyBind(f.closure, AwaitValue(f.inner), 0))

\* the receives of the log, in order: <<channel, value>>
RECURSIVE RecvsOf(_)
RecvsOf(l) ==
    IF l = <<>> THEN <<>>
    ELSE IF Head(l).e = "recv"
         THEN <<<<Head(l).ch, Head(l).ret[1]>>>> \o RecvsOf(Tail(l))
         ELSE RecvsOf(Tail(l))

\* future.bind(|v| lift(2*v)) or future.map(|v| 2*v)
IsDoubled(p) ==
    \/ p.kind = "bind" /\ p.closure = LiftDouble
    \/ p.kind = "then" /\ p.closure = Double

\* C14: future.bind(|v| lift(f(v))) and future.map(f), f = |v| 2*v, behave as
\* one function of the inner future and of the values sent: the await returns
\* f of the inner future's value, receives from the channels of the inner
\* future, in its order, and from no other, and calls the closure (so f) once,
\* on the inner value; if the inner future fails, neither calls it.
C14_BindLiftIsMap ==
    IsDoubled(prog) =>
        /\ Cardinality(Calls(prog.id)) <= 1
        /\ pc = "panicked" => Calls(prog.id) = {}
        /\ pc = "done" =>
              /\ result = <<U8(2 * AwaitValue(prog.inner))>>
              /\ RecvsOf(log) =
                    [i \in 1..Len(AwaitRecvs(prog.inner)) |->
                        <<AwaitRecvs(prog.inner)[i], sent[AwaitRecvs(prog.inner)[i]][1]>>]
              /\ \E k \in Calls(prog.id) :
                    /\ Calls(prog.id) = {k}
                    /\ log[k].arg = <<AwaitValue(prog.inner)>>
                    /\ \A i \in Idx : log[i].e = "recv" => i < k

\* test_composes_with_wrapped_bind, the value sent after await was called
C14_Witness ==
    /\ pc = "done"
    /\ prog.kind = "bind"
    /\ prog.closure = LiftDouble
    /\ prog.inner.kind = "chan"
    /\ prog.inner.ch \notin early
    /\ result = <<2 * sent[prog.inner.ch][1]>>

\* ------------------------------------------------------------- C15
\* The programs that bind twice, grouped either way, over a future m that is
\* a lifted value or a ChannelFuture:
\*     m.bind(f).bind(g)          m.bind(|x| f(x).bind(g))
IsBase(m) == m.kind \in {"wrap", "chan"}

\* the closures a bind may be given: they capture the ChannelFuture created
\* first among those still held in local variables
SimpleBinds(own) ==
    {LiftDouble, LiftAdd} \cup
    {BindSecond(h) : h \in {h \in own : \A k \in own : h.id <= k.id}}

NestedBinds(own) ==
    UNION {{BindBind(f, g) : g \in SimpleBinds(own \ CapturedBy(f))} :
              f \in SimpleBinds(own)}

\* future.bind(foo); the closure captures (moves) the ChannelFutures it names
Bind(foo) ==
    /\ pc = "build"
    /\ fut # NoFut
    /\ \/ IsBase(fut)
       \/ /\ fut.kind = "bind"
          /\ IsBase(fut.inner)
          /\ Made(fut.closure) = 1
          /\ Made(foo) = 1
    /\ fut' = bind(fut, foo, nextId)
    /\ owned' = owned \ CapturedBy(foo)
    /\ nextId' = nextId + 1
    /\ UNCHANGED <<pc, stack, val, result, prog, created, log>>
    /\ UNCHANGED chanVars

AssocCompose ==
    \/ ChannelFutureNew
    \/ \E v \in Values : Lift(v)
    \/ \E f \in owned : UseChannelFuture(f)
    \/ \E foo \in SimpleBinds(owned) : Bind(foo)
    \/ \E foo \in NestedBinds(owned) : Bind(foo)
    \/ StartAwait

AssocNext == AssocCompose \/ Await \/ SenderNext

AssocSpec == Init /\ [][AssocNext]_vars

AssocLeft(p) ==
    /\ p.kind = "bind"
    /\ p.inner.kind = "bind"
    /\ IsBase(p.inner.inner)
AssocRight(p) ==
    /\ p.kind = "bind"
    /\ p.closure.op = "bindBind"
    /\ IsBase(p.inner)

\* m, f and g of a program grouped either way
AssocM(p) == IF AssocLeft(p) THEN p.inner.inner ELSE p.inner
AssocF(p) == IF AssocLeft(p) THEN p.inner.closure ELSE p.closure.f
AssocG(p) == IF AssocLeft(p) THEN p.closure ELSE p.closure.g

\* the combinator whose closure call is the call of f, and of g: grouped to the
\* right, f is called by the call of the outer closure and g is the closure of
\* the bind that call returned
FCaller(p) == IF AssocLeft(p) THEN p.inner.id ELSE p.id
GCaller(p) ==
    IF AssocLeft(p) THEN p.id
    ELSE IF Calls(p.id) = {} THEN 0
    ELSE log[CHOOSE k \in Calls(p.id) : TRUE].next

\* what await does, as the source has it, in order: <<"lift", _, v>> a lifted
\* value v returned, <<"recv", c, v>> v received from c, <<"call", _, a>> a
\* closure called on a
RECURSIVE AwaitTrace(_)
AwaitTrace(f) ==
    CASE f.kind = "wrap" -> << <<"lift", NoChan, f.val>> >>
      [] f.kind = "chan" -> << <<"recv", f.ch, sent[f.ch][1]>> >>
      [] f.kind = "then" ->
            AwaitTrace(f.inner) \o << <<"call", NoChan, AwaitValue(f.inner)>> >>
      [] f.kind = "bind" ->
            AwaitTrace(f.inner) \o << <<"call", NoChan, AwaitValue(f.inner)>> >>
              \o AwaitTrace(ApplyBind(f.closure, AwaitValue(f.inner), 0))

\* the same read off the log l, the calls of f and g marked
RECURSIVE Seen(_, _, _)
Seen(l, fc, gc) ==
    IF l = <<>> THEN <<>>
    ELSE LET h == Head(l)
             item ==
                CASE h.e = "recv" -> << <<"recv", h.ch, h.ret[1]>> >>
                  [] h.e = "await" /\ h.kind = "wrap" -> << <<"lift", NoChan, h.ret[1]>> >>
                  [] h.e = "call" /\ h.id = fc -> << <<"f", NoChan, h.arg[1]>> >>
                  [] h.e = "call" /\ h.id = gc -> << <<"g", NoChan, h.arg[1]>> >>
                  [] h.e = "call" -> << <<"call", NoChan, h.arg[1]>> >>
                  [] OTHER -> <<>>
         IN  item \o Seen(Tail(l), fc, gc)

\* C15: m.bind(f).bind(g) and m.bind(|x| f(x).bind(g)) behave as one function
\* of m, f, g and the values sent: the await resolves m to x, calls f on x,
\* resolves f's future to y, calls g on y, resolves g's future and returns its
\* value, with the same receives and calls in the same order.
C15_BindAssociative ==
    (pc = "done" /\ (AssocLeft(prog) \/ AssocRight(prog))) =>
        LET m  == AssocM(prog)
            x  == AwaitValue(m)
            fx == ApplyBind(AssocF(prog), x, 0)
            y  == AwaitValue(fx)
            gy == ApplyBind(AssocG(prog), y, 0)
        IN  /\ result = <<AwaitValue(gy)>>
            /\ Seen(log, FCaller(prog), GCaller(prog)) =
                  AwaitTrace(m) \o << <<"f", NoChan, x>> >> \o AwaitTrace(fx)
                     \o << <<"g", NoChan, y>> >> \o AwaitTrace(gy)

\* grouped to the right, m a ChannelFuture resolved after await was called,
\* f = |v| lift(v + 50), g capturing a second ChannelFuture
C15_Witness ==
    /\ pc = "done"
    /\ AssocRight(prog)
    /\ prog.inner.kind = "chan"
    /\ prog.inner.ch \notin early
    /\ prog.closure.f = LiftAdd
    /\ prog.closure.g.op = "bindSecond"
    /\ result = <<(sent[prog.inner.ch][1] + 50) * sent[prog.closure.g.second.ch][1]>>

\* ------------------------------------------------------------- C16
\* a thread holding a Sender of c may take a step (its turn in the model)
SenderTurn(c) == SenderMayRun /\ senders[c] > 0

\* the awaiting thread stands in a recv on an empty channel with a live Sender
BlockedInRecv == Awaiting("chan") /\ ~RecvReady(fut.ch)

C16_NothingElseBlocks ==
    /\ \A c \in Chans :
          SenderTurn(c) =>
              /\ ops < MaxSenderOps => ENABLED (\E v \in Values : Send(c, v))
              /\ ENABLED DropSender(c)
    /\ (pc = "await" /\ ~BlockedInRecv) => ENABLED ChannelAwait

C16_SendOk ==
    \A c \in Chans :
        (attempts'[c] # attempts[c] /\ c \in LiveFutures) =>
            /\ sendRes'[c] = "ok"
            /\ \E v \in Values :
                  /\ queue'[c] = Append(queue[c], v)
                  /\ sent'[c] = Append(sent[c], v)
            /\ mainVars' = mainVars

\* C16: while the ChannelFuture of a channel exists (in a local variable,
\* inside a composed future, captured by a bind closure, or being awaited) a
\* send on its resolver returns Ok and queues the value; send never waits for
\* the state of the channel or of the await; the awaiting thread can take a
\* step whenever it is not inside a recv on an empty channel with live Senders.
C16_SendSucceedsWhileFutureExists ==
    /\ []C16_NothingElseBlocks
    /\ [][C16_SendOk]_vars

\* test_bind_sequences_two_channel_futures: the await stands at first's recv,
\* second sits in the bind closure, and a value was just sent to second
C16_Witness ==
    /\ IsBindTwo(prog)
    /\ AwaitingChan(FirstOf(prog))
    /\ sent[FirstOf(prog)] = <<>>
    /\ SecondOf(prog) \notin early
    /\ sendRes[SecondOf(prog)] = "ok"
    /\ queue[SecondOf(prog)] # <<>>
    /\ SecondOf(prog) \in FrameChans(Top)

\* ------------------------------------------------------------- C17
\* The programs that make the channel themselves and hand its Receiver to
\* ChannelFuture::from_receiver, after reading from it or not:
\*     let (tx, rx) = mpsc::channel(); ..; ChannelFuture::from_receiver(rx).await()
Receiver(c, id) == [kind |-> "rx", ch |-> c, id |-> id]
RxOf(r) == [kind |-> r.kind, id |-> r.id, ch |-> r.ch, inner |-> 0]

\* mpsc::channel(): the Receiver stays in a local variable of the awaiting
\* thread, the Sender goes to another thread
MpscChannel ==
    /\ pc = "build"
    /\ fut = NoFut
    /\ owned = {}
    /\ Cardinality(created) < Len(ChanOrder)
    /\ LET c == ChanOrder[Cardinality(created) + 1] IN
        /\ created' = created \cup {c}
        /\ owned' = {Receiver(c, nextId)}
        /\ senders' = [senders EXCEPT ![c] = 1]
        /\ rxAlive' = [rxAlive EXCEPT ![c] = TRUE]
    /\ nextId' = nextId + 1
    /\ UNCHANGED <<pc, fut, stack, val, result, prog, queue, sent, attempts, sendRes, ops, early, log>>

\* rx.try_recv() by the program itself, before the Receiver is handed over,
\* when a value is queued; the log gets a "read" entry
RawRecv(r) ==
    /\ pc = "build"
    /\ fut = NoFut
    /\ r \in owned
    /\ r.kind = "rx"
    /\ queue[r.ch] # <<>>
    /\ queue' = [queue EXCEPT ![r.ch] = Tail(@)]
    /\ log' = Append(log, Event("read", RxOf(r), <<>>, <<Head(queue[r.ch])>>, 0))
    /\ UNCHANGED <<pc, owned, fut, stack, val, result, prog, nextId, created>>
    /\ UNCHANGED <<senders, rxAlive, sent, attempts, sendRes, ops, early>>

\* FromReceiver throwing away what the Receiver holds, so that the future is
\* resolved by the first value sent from then on
FromReceiverSkipsUnread(r) ==
    /\ pc = "build"
    /\ fut = NoFut
    /\ r \in owned
    /\ r.kind = "rx"
    /\ fut' = ChannelFuture(r.ch, nextId)
    /\ owned' = owned \ {r}
    /\ nextId' = nextId + 1
    /\ queue' = [queue EXCEPT ![r.ch] = <<>>]
    /\ log' = Append(log, Event("from_receiver", Of(fut'), queue[r.ch], <<>>, 0))
    /\ UNCHANGED <<pc, stack, val, result, prog, created>>
    /\ UNCHANGED <<senders, rxAlive, sent, attempts, sendRes, ops, early>>

\* ChannelFuture::from_receiver(rx) = ChannelFuture { rx: rx }; the log gets a
\* "from_receiver" entry whose arg is what the Receiver holds at that moment
FromReceiver(r) ==
    /\ pc = "build"
    /\ fut = NoFut
    /\ r \in owned
    /\ r.kind = "rx"
    /\ fut' = ChannelFuture(r.ch, nextId)
    /\ owned' = owned \ {r}
    /\ nextId' = nextId + 1
    /\ log' = Append(log, Event("from_receiver", Of(fut'), queue[r.ch], <<>>, 0))
    /\ UNCHANGED <<pc, stack, val, result, prog, created>>
    /\ UNCHANGED chanVars

ReceiverMain ==
    \/ MpscChannel
    \/ \E r \in owned : RawRecv(r)
    \/ \E r \in owned : FromReceiver(r)
    \/ StartAwait
    \/ ChannelRecv
    \/ ChannelRecvFail
    \/ ChannelReturn
    \/ Finish

ReceiverNext == ReceiverMain \/ SenderNext

ReceiverSpec == Init /\ [][ReceiverNext]_vars

\* the values taken off channel c so far, by the program and by the future
RECURSIVE TakenOff(_, _)
TakenOff(l, c) ==
    IF l = <<>> THEN <<>>
    ELSE IF Head(l).e \in {"read", "recv"} /\ Head(l).ch = c
         THEN <<Head(l).ret[1]>> \o TakenOff(Tail(l), c)
         ELSE TakenOff(Tail(l), c)

WrapIdx(c) == {i \in Idx : log[i].e = "from_receiver" /\ log[i].ch = c}

C18_SameCombinator ==
    (pc = "build" /\ fut # NoFut) =>
        \A f \in ThenClosures :
            /\ map(fut, f, nextId) = then(fut, f, nextId)
            /\ map(fut, f, nextId) =
                  [kind |-> "then", inner |-> fut, closure |-> f, id |-> nextId]

C18_SameAwait ==
    (pc = "done" /\ prog.kind = "then") =>
        /\ result = <<ApplyThen(prog.closure, AwaitValue(prog.inner))>>
        /\ \E k \in Calls(prog.id) :
              /\ Calls(prog.id) = {k}
              /\ k = Len(log)
              /\ log[k].arg = <<AwaitValue(prog.inner)>>
              /\ RetAt(prog.inner.id) \in 1..(k - 1)

C18_SameStep ==
    (\E f \in ThenClosures : Then(f)) <=> (\E f \in ThenClosures : Map(f))

\* C18: map(f) and then(f) build one and the same FutureThen value, so a
\* step of the program that calls the one is a step that calls the other, and
\* the await (one for both) resolves the inner future and then calls f on its
\* value, once, returning f's result.
C18_ThenIsMap ==
    /\ []C18_SameCombinator
    /\ []C18_SameAwait
    /\ [][C18_SameStep]_vars

\* future.then(|val| val + 1) / future.map(|val| val + 1) over a ChannelFuture
C18_Witness ==
    /\ pc = "done"
    /\ prog.kind = "then"
    /\ prog.closure = Inc
    /\ prog.inner.kind = "chan"
    /\ result = <<sent[prog.inner.ch][1] + 1>>

\* ------------------------------------------------------------- C19
\* the combinators whose await was entered and whose inner future has not
\* returned
Waiting == {a \in Idx : /\ log[a].e = "await"
                        /\ log[a].kind \in {"then", "bind"}
                        /\ RetAt(log[a].inner) = 0}

AnyFail == {i \in Idx : log[i].e = "recvErr"}

\* C19: when a ChannelFuture inside a composed future fails, the failure is
\* the end of the outermost await: the thread is unwinding (panicked) with no
\* value returned at any level, the failed recv is the last thing the await
\* did, the closure of no combinator that was waiting for its inner future is
\* called, and a future that had not been resolved by then never is; an await
\* in which a recv failed never ends with a value.
C19_FailurePropagates ==
    /\ AnyFail # {} <=> pc = "panicked"
    /\ pc = "panicked" =>
          /\ AnyFail = {Len(log)}
          /\ result = <<>>
          /\ val = <<>>
          /\ stack = <<>>
          /\ fut = NoFut
          /\ \A a \in Waiting : Calls(log[a].id) = {}
          /\ \A c \in ChansOf(prog) : Cardinality(RecvIdx(c) \cup FailIdx(c)) <= 1

\* first.bind(|a| second.map(..)): first's resolver was dropped unused while
\* second's value was there to take; the closure was not called and second
\* was never received from
C19_Witness ==
    /\ pc = "panicked"
    /\ IsBindTwo(prog)
    /\ FailIdx(FirstOf(prog)) # {}
    /\ sent[SecondOf(prog)] # <<>>
    /\ RecvIdx(SecondOf(prog)) = {}
    /\ \E a \in Waiting : log[a].id = prog.id
    /\ Calls(prog.id) = {}

\* ------------------------------------------------------------- C20
\* the Sender::clone calls made
Clones == ops - (attempts["first"] + attempts["second"])

C20_Blocked ==
    \A c \in Chans :
        AwaitingChan(c) =>
            /\ FailIdx(c) = {}
            /\ (senders[c] > 0 /\ queue[c] = <<>>) => ~ENABLED ChannelMain
            /\ queue[c] # <<>> => (ENABLED ChannelRecv /\ ~ENABLED ChannelRecvFail)
            /\ (senders[c] = 0 /\ queue[c] = <<>>) => ENABLED ChannelRecvFail

C20_FailStep ==
    \A c \in Chans :
        (FailIdx(c)' # {} /\ FailIdx(c) = {}) =>
            /\ senders[c] = 0
            /\ queue[c] = <<>>
            /\ AwaitingChan(c)

\* C20: the await of a ChannelFuture fails only in a step taken when no
\* Sender handle of its channel is left, the original and every clone, and
\* nothing is queued; while a handle is alive and nothing is queued the
\* awaiting thread stays blocked in recv, however many other handles were
\* dropped; it can go on, returning the value, as soon as one is queued, and
\* can fail only once the last handle is gone.
C20_FailsOnlyAfterLastSender ==
    /\ []C20_Blocked
    /\ [][C20_FailStep]_vars

\* the resolver was cloned and one of the two handles dropped without a send:
\* the await stands blocked in recv and has not failed
C20_Witness ==
    \E c \in Chans :
        /\ AwaitingChan(c)
        /\ Clones = 1
        /\ senders[c] = 1
        /\ \A d \in Chans \ {c} : senders[d] = 0 /\ d \notin created
        /\ sent[c] = <<>>
        /\ FailIdx(c) = {}
        /\ ~ENABLED ChannelMain
====
